---- MODULE Spec2Model ----
(***************************************************************************)
(* Verification model of the logic-bearing pieces of the tutorial scripts: *)
(*   - the conversation-history trimmer and the token-limited chat loop    *)
(*     (04_conversational_chat_with_token_limit_handling.py),              *)
(*   - the tool-calling orchestration loops (10_function_calling.py,       *)
(*     9_function_calling_chain_functions.py,                              *)
(*     13_ollama/08_function_calling_ollama.py),                           *)
(*   - the chat loop with a streamed answer (07_streaming_responses.py).   *)
(***************************************************************************)
EXTENDS Integers, Sequences, FiniteSets, TLC

VARIABLES
    script,               \* which script is running
    pc,                   \* position of the script's control flow
    conversation,         \* the `conversation` list of the running script
    max_response_tokens,  \* argument of the trim_conversation call under study
    token_limit,          \* argument of the trim_conversation call under study
    trim_input,           \* history: transcript handed to the last trim_conversation call
    iterations,           \* history: iterations of the trimming loop in that call
    asked,                \* number of questions read so far
    response,             \* the `response` variable of a tool-calling script
    i,                    \* position of the for loop over the response's items
    next_call_id,         \* model client: call ids handed out so far
    items_emitted,        \* model client: output items returned so far in the run
    total_calls,          \* history: model calls issued in the run
    model_calls,          \* history: model calls issued for the current question
    call_failed,          \* history: a model call of the current question raised
    turns,                \* history: outputs the model returned for the current question
    executed,             \* history: call ids whose callable was invoked for the current question
    printed,              \* what the streaming script has written to the terminal
    stream_log,           \* history: chunks read from the stream of the current question
    chunks_total          \* model client: chunks delivered so far in the run

trimvars == <<max_response_tokens, token_limit, trim_input, iterations>>

toolvars == <<response, i, next_call_id, items_emitted, total_calls, model_calls,
              call_failed, turns, executed>>

streamvars == <<printed, stream_log, chunks_total>>

vars == <<script, pc, conversation, asked, trimvars, toolvars, streamvars>>

(***************************************************************************)
(* Bounds of the exploration.                                              *)
(***************************************************************************)
MaxLen == 4        \* longest transcript handed to trim_conversation on its own
MaxRounds == 3     \* questions typed into the chat loop
MaxQuestions == 2  \* entries of the `questions` list of a tool-calling script
MaxCalls == 3      \* model calls issued in one run of a tool-calling script
MaxItems == 4      \* output items the model returns in one run of a tool-calling script
MaxChunks == 4     \* chunks the streams deliver in one run of the streaming script

(***************************************************************************)
(* Program constants.                                                      *)
(***************************************************************************)
TOKEN_LIMIT == 150
MAX_RESPONSE_TOKENS == 50

(***************************************************************************)
(* The tokenizer (tiktoken) is an external collaborator: len(encode(v)) is *)
(* given here for the strings the model uses.                              *)
(***************************************************************************)
InstructionText == "You are a sarcastic AI assistant. You are proud of your amazing memory"

Tok(value) ==
    CASE value = "developer" -> 1
      [] value = "user" -> 1
      [] value = "assistant" -> 1
      [] value = "example_user" -> 2
      [] value = InstructionText -> 15
      [] value = "hi" -> 1
      [] value = "how are you?" -> 4
      [] value = "a long question" -> 40
      [] value = "a very long question" -> 90
      [] value = "hello!" -> 2
      [] value = "a long answer" -> 50

RECURSIVE KeyTokens(_, _)
\* inner loop of calculate_token_count: for key, value in message.items()
KeyTokens(message, keys) ==
    IF keys = {} THEN 0
    ELSE LET key == CHOOSE k \in keys : TRUE
         IN  Tok(message[key]) + (IF key = "name" THEN 1 ELSE 0)
             + KeyTokens(message, keys \ {key})

RECURSIVE MessagesTokens(_)
\* outer loop of calculate_token_count: for message in conversation
MessagesTokens(conv) ==
    IF conv = <<>> THEN 0
    ELSE 3 + KeyTokens(Head(conv), DOMAIN Head(conv)) + MessagesTokens(Tail(conv))

\* a count that leaves out the 3 tokens priming the reply
calculate_token_count_NoPriming(conv) == MessagesTokens(conv)

calculate_token_count(conv) == 3 + MessagesTokens(conv)

\* list.pop(): remove the last element
Pop1_PopLast(conv) == SubSeq(conv, 1, Len(conv) - 1)

\* list.pop(1): remove the element at Python index 1
Pop1(conv) == <<conv[1]>> \o SubSeq(conv, 3, Len(conv))

\* a loop condition that also trims a transcript filling the budget exactly
TrimCond_AtLeast(conv, maxr, limit) ==
    calculate_token_count(conv) + maxr >= limit /\ Len(conv) > 2

\* a loop condition that stops trimming at three messages
TrimCond_KeepThree(conv, maxr, limit) ==
    calculate_token_count(conv) + maxr > limit /\ Len(conv) > 3

\* a loop condition that still trims a transcript of two messages
TrimCond_FloorOne(conv, maxr, limit) ==
    calculate_token_count(conv) + maxr > limit /\ Len(conv) > 1

\* condition of the while loop of trim_conversation
TrimCond(conv, maxr, limit) ==
    calculate_token_count(conv) + maxr > limit /\ Len(conv) > 2

\* a trimming loop that pops at index 0 instead of index 1
TrimBody_PopFront(conv) == Tail(Tail(conv))

\* body of the while loop of trim_conversation: two pops at index 1
TrimBody(conv) == Pop1(Pop1(conv))

RECURSIVE trim_conversation(_, _, _)
trim_conversation(conv, maxr, limit) ==
    IF TrimCond(conv, maxr, limit)
    THEN trim_conversation(TrimBody(conv), maxr, limit)
    ELSE conv

RECURSIVE TrimIterations(_, _, _)
\* number of iterations the while loop of trim_conversation makes
TrimIterations(conv, maxr, limit) ==
    IF TrimCond(conv, maxr, limit)
    THEN 1 + TrimIterations(TrimBody(conv), maxr, limit)
    ELSE 0

\* `response` before the first model call
NoResponse == [output |-> <<>>]

\* the tool-calling variables of a script that calls no tools
ToolIdle ==
    /\ response = NoResponse
    /\ i = 0
    /\ next_call_id = 0
    /\ items_emitted = 0
    /\ total_calls = 0
    /\ model_calls = 0
    /\ call_failed = FALSE
    /\ turns = <<>>
    /\ executed = <<>>

\* the trimming variables of a script that does not trim
TrimIdle ==
    /\ max_response_tokens = 0
    /\ token_limit = 0
    /\ trim_input = <<>>
    /\ iterations = 0

\* the streaming variables of a script that does not stream
StreamIdle ==
    /\ printed = <<>>
    /\ stream_log = <<>>
    /\ chunks_total = 0

(***************************************************************************)
(* Specification SpecTrim: trim_conversation on its own, for every         *)
(* transcript of up to MaxLen messages and a range of budgets.             *)
(***************************************************************************)
TrimMessages ==
    { [role |-> "developer", content |-> InstructionText],
      [role |-> "user", content |-> "hi"],
      [role |-> "user", content |-> "a long question"],
      [role |-> "assistant", content |-> "hello!"],
      [role |-> "user", name |-> "example_user", content |-> "how are you?"] }

TrimTranscripts == UNION { [1..n -> TrimMessages] : n \in 0..MaxLen }

TrimMaxResponse == {0, 50}
TrimLimits == {0, 60, 150}

InitTrim ==
    /\ script = "trim"
    /\ pc = "trim_loop"
    /\ conversation \in TrimTranscripts
    /\ max_response_tokens \in TrimMaxResponse
    /\ token_limit \in TrimLimits
    /\ trim_input = conversation
    /\ iterations = 0
    /\ asked = 0
    /\ ToolIdle
    /\ StreamIdle

\* an iteration that pops one message only
TrimIterate_PopOnce ==
    /\ script = "trim"
    /\ pc = "trim_loop"
    /\ TrimCond(conversation, max_response_tokens, token_limit)
    /\ conversation' = Pop1(conversation)
    /\ iterations' = iterations + 1
    /\ UNCHANGED <<script, streamvars, pc, max_response_tokens, token_limit, trim_input, asked, toolvars>>

\* one iteration of the while loop of trim_conversation
TrimIterate ==
    /\ script = "trim"
    /\ pc = "trim_loop"
    /\ TrimCond(conversation, max_response_tokens, token_limit)
    /\ conversation' = TrimBody(conversation)
    /\ iterations' = iterations + 1
    /\ UNCHANGED <<script, streamvars, pc, max_response_tokens, token_limit, trim_input, asked, toolvars>>

\* the loop condition is false: return conversation
TrimReturn ==
    /\ script = "trim"
    /\ pc = "trim_loop"
    /\ ~TrimCond(conversation, max_response_tokens, token_limit)
    /\ pc' = "trim_returned"
    /\ UNCHANGED <<script, streamvars, conversation, asked, trimvars, toolvars>>

NextTrim == TrimIterate \/ TrimReturn

SpecTrim == InitTrim /\ [][NextTrim]_vars

\* trim_conversation is a sequential function: once called it keeps running
SpecTrimFair == SpecTrim /\ WF_vars(NextTrim)

(***************************************************************************)
(* Specification SpecChat: the chat loop of                                *)
(* 04_conversational_chat_with_token_limit_handling.py.                    *)
(***************************************************************************)
Instruction == [role |-> "developer", content |-> InstructionText]

ChatQuestions == {"hi", "a long question", "a very long question"}
ChatAnswers == {"hello!", "a long answer"}

InitChat ==
    /\ script = "chat"
    /\ pc = "input"
    /\ conversation = <<Instruction>>
    /\ max_response_tokens = MAX_RESPONSE_TOKENS
    /\ token_limit = TOKEN_LIMIT
    /\ trim_input = <<>>
    /\ iterations = 0
    /\ asked = 0
    /\ ToolIdle
    /\ StreamIdle

\* input() returns 'exit': break
ChatExit ==
    /\ script = "chat"
    /\ pc = "input"
    /\ pc' = "exited"
    /\ UNCHANGED <<script, streamvars, conversation, asked, trimvars, toolvars>>

\* a chat loop that skips the model call when the trimmed transcript is
\* still over the budget
ChatAsk_SkipOverBudget ==
    /\ script = "chat"
    /\ pc = "input"
    /\ asked < MaxRounds
    /\ \E question \in ChatQuestions :
         LET appended == Append(conversation, [role |-> "user", content |-> question])
             trimmed == trim_conversation(appended, MAX_RESPONSE_TOKENS, TOKEN_LIMIT)
         IN  /\ trim_input' = appended
             /\ iterations' = TrimIterations(appended, MAX_RESPONSE_TOKENS, TOKEN_LIMIT)
             /\ conversation' = trimmed
             /\ pc' = IF calculate_token_count(trimmed) + MAX_RESPONSE_TOKENS <= TOKEN_LIMIT
                      THEN "call" ELSE "input"
    /\ asked' = asked + 1
    /\ call_failed' = FALSE
    /\ UNCHANGED <<script, streamvars, max_response_tokens, token_limit, response, i,
                   next_call_id, items_emitted, total_calls, model_calls, turns, executed>>

\* input() returns a question: append it, trim, go to the model call
ChatAsk ==
    /\ script = "chat"
    /\ pc = "input"
    /\ asked < MaxRounds
    /\ \E question \in ChatQuestions :
         LET appended == Append(conversation, [role |-> "user", content |-> question])
         IN  /\ trim_input' = appended
             /\ iterations' = TrimIterations(appended, MAX_RESPONSE_TOKENS, TOKEN_LIMIT)
             /\ conversation' = trim_conversation(appended, MAX_RESPONSE_TOKENS, TOKEN_LIMIT)
    /\ asked' = asked + 1
    /\ call_failed' = FALSE
    /\ pc' = "call"
    /\ UNCHANGED <<script, streamvars, max_response_tokens, token_limit, response, i,
                   next_call_id, items_emitted, total_calls, model_calls, turns, executed>>

\* client.responses.create returns: the answer is appended
ChatAnswer ==
    /\ script = "chat"
    /\ pc = "call"
    /\ \E answer \in ChatAnswers :
         conversation' = Append(conversation, [role |-> "assistant", content |-> answer])
    /\ total_calls' = total_calls + 1
    /\ pc' = "input"
    /\ UNCHANGED <<script, streamvars, asked, trimvars, response, i, next_call_id,
                   items_emitted, model_calls, call_failed, turns, executed>>

\* an except branch that also takes the unanswered question out again
ChatError_DropsQuestion ==
    /\ script = "chat"
    /\ pc = "call"
    /\ total_calls' = total_calls + 1
    /\ call_failed' = TRUE
    /\ conversation' = SubSeq(conversation, 1, Len(conversation) - 1)
    /\ pc' = "input"
    /\ UNCHANGED <<script, streamvars, asked, trimvars, response, i,
                   next_call_id, items_emitted, model_calls, turns, executed>>

\* client.responses.create raises: except Exception ... continue
ChatError ==
    /\ script = "chat"
    /\ pc = "call"
    /\ total_calls' = total_calls + 1
    /\ call_failed' = TRUE
    /\ pc' = "input"
    /\ UNCHANGED <<script, streamvars, conversation, asked, trimvars, response, i,
                   next_call_id, items_emitted, model_calls, turns, executed>>

NextChat == ChatExit \/ ChatAsk \/ ChatAnswer \/ ChatError

SpecChat == InitChat /\ [][NextChat]_vars

(***************************************************************************)
(* Specification SpecTrimChat: trim_conversation on its own and inside the *)
(* chat loop.                                                              *)
(***************************************************************************)
SpecTrimChat == (InitTrim \/ InitChat) /\ [][NextTrim \/ NextChat]_vars

(***************************************************************************)
(* Tool calling: what the scripts share.                                   *)
(*                                                                         *)
(* The model client is an external collaborator.  One call either raises   *)
(* or returns a turn; the turn's function-call requests carry fresh call   *)
(* ids.  A request names a function and carries JSON-encoded arguments.    *)
(***************************************************************************)
\* names declared in tool_descriptions
DeclaredTools == {"get_build_information", "get_last_build"}

ArgsLast == "{\"product_name\": \"XYZ\", \"branch_name\": \"XYZ_1_2_MAIN\"}"
ArgsInfo == "{\"product_name\": \"XYZ\", \"branch_name\": \"XYZ_1_2_MAIN\", \"build_id\": \"12345\"}"
ArgsTruncated == "{\"product_name\": \"XYZ\", \"branch_na"

\* json.loads(arguments) returns (otherwise it raises JSONDecodeError)
JsonValid(arguments) == arguments \in {ArgsLast, ArgsInfo}

\* json.loads(arguments), for arguments it accepts
JsonLoads(arguments) ==
    IF arguments = ArgsLast
    THEN [product_name |-> "XYZ", branch_name |-> "XYZ_1_2_MAIN"]
    ELSE [product_name |-> "XYZ", branch_name |-> "XYZ_1_2_MAIN", build_id |-> "12345"]

\* names the script's namespace binds to something callable with keywords:
\* the two tool functions, and builtins such as dict
Bound == DeclaredTools \cup {"dict"}

\* eval(chosen_function) returns (otherwise it raises NameError)
EvalResolves(name) == name \in Bound

\* function_to_call(**function_params) returns (otherwise it raises TypeError)
CallAccepts(name, params) ==
    CASE name = "get_last_build" -> DOMAIN params = {"product_name", "branch_name"}
      [] name = "get_build_information" ->
             DOMAIN params = {"product_name", "branch_name", "build_id"}
      [] name = "dict" -> TRUE

\* the value function_to_call(**function_params) returns: the tool functions
\* return json.dumps(build_info), a str; dict returns a dict
CallReturn(name, params) ==
    [pytype |-> IF name = "dict" THEN "dict" ELSE "str",
     from |-> name,
     product_name |-> params.product_name,
     build_id |-> CASE name = "get_last_build" -> "12345"
                    [] name = "get_build_information" -> params.build_id
                    [] OTHER -> "none"]

\* str(function_response)
PyStr(value) ==
    [pytype |-> "str", from |-> value.from, product_name |-> value.product_name,
     build_id |-> value.build_id, repr |-> value.pytype # "str"]

\* the requests the modelled model client may emit
RequestKinds ==
    { [name |-> "get_last_build", arguments |-> ArgsLast],
      [name |-> "get_build_information", arguments |-> ArgsInfo],
      [name |-> "get_build_information", arguments |-> ArgsLast],
      [name |-> "get_last_build", arguments |-> ArgsTruncated],
      [name |-> "no_such_tool", arguments |-> ArgsLast],
      [name |-> "dict", arguments |-> ArgsLast] }

\* the request raises somewhere between json.loads and the call's return
Raises(request) ==
    IF ~JsonValid(request.arguments) THEN TRUE
    ELSE IF ~EvalResolves(request.name) THEN TRUE
    ELSE ~CallAccepts(request.name, JsonLoads(request.arguments))

\* eval resolved a callable, so function_to_call(...) is evaluated
Invoked(request) ==
    JsonValid(request.arguments) /\ EvalResolves(request.name)

(***************************************************************************)
(* 10_function_calling.py (and 12_responses_api/04_function_calling.py):   *)
(* the Responses API.  response.output is a list of items, each of type    *)
(* "function_call" or of another type (message, reasoning).                *)
(***************************************************************************)
SystemPrompt == "Assistant is a helpful assistant that helps users get answers to questions."

MessageItem == [type |-> "message", text |-> "answer"]

ItemKinds ==
    { [type |-> "function_call", name |-> r.name, arguments |-> r.arguments] :
        r \in RequestKinds } \cup {MessageItem}

IsCall(item) == item.type = "function_call"

\* number of function-call items among the first j items
CallsUpTo(items, j) == Cardinality({k \in 1..j : IsCall(items[k])})

\* the items of a turn as the client returns them: each request gets a call id
WithCallIds(kinds, base) ==
    [j \in 1..Len(kinds) |->
        IF IsCall(kinds[j])
        THEN [type |-> "function_call", call_id |-> base + CallsUpTo(kinds, j),
              name |-> kinds[j].name, arguments |-> kinds[j].arguments]
        ELSE kinds[j]]

\* the outputs a model call may return in the current state
ModelOutputs ==
    { WithCallIds(kinds, next_call_id) :
        kinds \in UNION { [1..n -> ItemKinds] : n \in 0..(MaxItems - items_emitted) } }

\* response.output_text: the texts of the message items
OutputText(output) ==
    [text |-> "output_text",
     parts |-> Len(SelectSeq(output, LAMBDA item : ~IsCall(item)))]

\* the function-call items of an output, in order
CallItems(output) == SelectSeq(output, IsCall)

InitResponses ==
    /\ script = "responses"
    /\ pc = "for_question"
    /\ conversation = <<[role |-> "developer", content |-> SystemPrompt]>>
    /\ asked = 0
    /\ TrimIdle
    /\ ToolIdle
    /\ StreamIdle

\* a loop that starts every question from a fresh transcript
R_NextQuestion_FreshTranscript ==
    /\ script = "responses"
    /\ pc = "for_question"
    /\ asked < MaxQuestions
    /\ asked' = asked + 1
    /\ conversation' = <<[role |-> "developer", content |-> SystemPrompt],
                         [role |-> "user", content |-> "question"]>>
    /\ model_calls' = 0
    /\ call_failed' = FALSE
    /\ turns' = <<>>
    /\ executed' = <<>>
    /\ pc' = "first_call"
    /\ UNCHANGED <<script, streamvars, trimvars, response, i, next_call_id, items_emitted, total_calls>>

\* for question in questions: conversation.append(user message)
R_NextQuestion ==
    /\ script = "responses"
    /\ pc = "for_question"
    /\ asked < MaxQuestions
    /\ asked' = asked + 1
    /\ conversation' = Append(conversation, [role |-> "user", content |-> "question"])
    /\ model_calls' = 0
    /\ call_failed' = FALSE
    /\ turns' = <<>>
    /\ executed' = <<>>
    /\ pc' = "first_call"
    /\ UNCHANGED <<script, streamvars, trimvars, response, i, next_call_id, items_emitted, total_calls>>

\* the questions list is exhausted
R_Done ==
    /\ script = "responses"
    /\ pc = "for_question"
    /\ asked = MaxQuestions
    /\ pc' = "done"
    /\ UNCHANGED <<script, streamvars, conversation, asked, trimvars, toolvars>>

\* a model call returns `output`
ModelReturns(output) ==
    /\ response' = [output |-> output]
    /\ next_call_id' = next_call_id + Len(CallItems(output))
    /\ items_emitted' = items_emitted + Len(output)
    /\ total_calls' = total_calls + 1
    /\ model_calls' = model_calls + 1
    /\ turns' = Append(turns, output)

\* a model call raises
ModelRaises ==
    /\ total_calls' = total_calls + 1
    /\ model_calls' = model_calls + 1
    /\ call_failed' = TRUE
    /\ UNCHANGED <<response, next_call_id, items_emitted, turns>>

\* first LLM call returns
R_FirstCallReturns ==
    /\ script = "responses"
    /\ pc = "first_call"
    /\ total_calls < MaxCalls
    /\ \E output \in ModelOutputs : ModelReturns(output)
    /\ pc' = "while"
    /\ UNCHANGED <<script, streamvars, conversation, asked, trimvars, i, call_failed, executed>>

\* first LLM call raises: the outer except Exception, continue
R_FirstCallRaises ==
    /\ script = "responses"
    /\ pc = "first_call"
    /\ total_calls < MaxCalls
    /\ ModelRaises
    /\ pc' = "for_question"
    /\ UNCHANGED <<script, streamvars, conversation, asked, trimvars, i, executed>>

\* the condition of the while loop
WhileCond(output) == output[1].type = "function_call"

\* while response.output[0].type == "function_call" on an empty output:
\* IndexError, the outer except Exception, continue
R_WhileIndexError ==
    /\ script = "responses"
    /\ pc = "while"
    /\ response.output = <<>>
    /\ pc' = "for_question"
    /\ UNCHANGED <<script, streamvars, conversation, asked, trimvars, toolvars>>

\* the while condition holds: conversation += response.output, start the for loop
R_WhileEnter ==
    /\ script = "responses"
    /\ pc = "while"
    /\ response.output # <<>>
    /\ WhileCond(response.output)
    /\ conversation' = conversation \o response.output
    /\ i' = 1
    /\ pc' = "for_item"
    /\ UNCHANGED <<script, streamvars, asked, trimvars, response, next_call_id, items_emitted,
                   total_calls, model_calls, call_failed, turns, executed>>

\* the while condition fails: the response is the final answer
R_WhileExit ==
    /\ script = "responses"
    /\ pc = "while"
    /\ response.output # <<>>
    /\ ~WhileCond(response.output)
    /\ pc' = "final"
    /\ UNCHANGED <<script, streamvars, conversation, asked, trimvars, toolvars>>

\* the for loop moves to the next item, or ends and reaches the next LLM call
ForAdvance ==
    /\ i' = i + 1
    /\ pc' = IF i = Len(response.output) THEN "next_call" ELSE "for_item"

\* for response_message in response.output: a non-function-call item is skipped
R_SkipItem ==
    /\ script = "responses"
    /\ pc = "for_item"
    /\ ~IsCall(response.output[i])
    /\ ForAdvance
    /\ UNCHANGED <<script, streamvars, conversation, asked, trimvars, response, next_call_id,
                   items_emitted, total_calls, model_calls, call_failed, turns, executed>>

\* an output entry that carries the call id of the turn's first item
FunctionCallOutput_FirstId(item) ==
    [type |-> "function_call_output",
     call_id |-> response.output[1].call_id,
     output |-> PyStr(CallReturn(item.name, JsonLoads(item.arguments)))]

\* an output entry that carries the return value itself, not str() of it
FunctionCallOutput_NoStr(item) ==
    [type |-> "function_call_output",
     call_id |-> item.call_id,
     output |-> CallReturn(item.name, JsonLoads(item.arguments))]

\* the entry appended for an executed function call
FunctionCallOutput(item) ==
    [type |-> "function_call_output",
     call_id |-> item.call_id,
     output |-> PyStr(CallReturn(item.name, JsonLoads(item.arguments)))]

\* a function-call item is executed and its output appended
R_ExecuteTool ==
    /\ script = "responses"
    /\ pc = "for_item"
    /\ IsCall(response.output[i])
    /\ ~Raises(response.output[i])
    /\ executed' = Append(executed, response.output[i].call_id)
    /\ conversation' = Append(conversation, FunctionCallOutput(response.output[i]))
    /\ ForAdvance
    /\ UNCHANGED <<script, streamvars, asked, trimvars, response, next_call_id, items_emitted,
                   total_calls, model_calls, call_failed, turns>>

\* an exception of one tool call is swallowed and the for loop goes on
R_ToolRaises_SkipsItem ==
    /\ script = "responses"
    /\ pc = "for_item"
    /\ IsCall(response.output[i])
    /\ Raises(response.output[i])
    /\ executed' = IF Invoked(response.output[i])
                   THEN Append(executed, response.output[i].call_id)
                   ELSE executed
    /\ ForAdvance
    /\ UNCHANGED <<script, streamvars, conversation, asked, trimvars, response, next_call_id,
                   items_emitted, total_calls, model_calls, call_failed, turns>>

\* json.loads, eval or the call raises: the outer except Exception, continue
R_ToolRaises ==
    /\ script = "responses"
    /\ pc = "for_item"
    /\ IsCall(response.output[i])
    /\ Raises(response.output[i])
    /\ executed' = IF Invoked(response.output[i])
                   THEN Append(executed, response.output[i].call_id)
                   ELSE executed
    /\ pc' = "for_question"
    /\ UNCHANGED <<script, streamvars, conversation, asked, trimvars, response, i, next_call_id,
                   items_emitted, total_calls, model_calls, call_failed, turns>>

\* next LLM call returns
R_NextCallReturns ==
    /\ script = "responses"
    /\ pc = "next_call"
    /\ total_calls < MaxCalls
    /\ \E output \in ModelOutputs : ModelReturns(output)
    /\ pc' = "while"
    /\ UNCHANGED <<script, streamvars, conversation, asked, trimvars, i, call_failed, executed>>

\* next LLM call raises: the inner except Exception, continue (of the while loop)
R_NextCallRaises ==
    /\ script = "responses"
    /\ pc = "next_call"
    /\ total_calls < MaxCalls
    /\ ModelRaises
    /\ pc' = "while"
    /\ UNCHANGED <<script, streamvars, conversation, asked, trimvars, i, executed>>

\* a final step that prints the answer without appending it
R_Final_NoAppend ==
    /\ script = "responses"
    /\ pc = "final"
    /\ pc' = "for_question"
    /\ UNCHANGED <<script, streamvars, conversation, asked, trimvars, toolvars>>

\* the final answer is printed and appended
R_Final ==
    /\ script = "responses"
    /\ pc = "final"
    /\ conversation' = Append(conversation,
           [role |-> "assistant", content |-> OutputText(response.output)])
    /\ pc' = "for_question"
    /\ UNCHANGED <<script, streamvars, asked, trimvars, toolvars>>

NextResponses ==
    \/ R_NextQuestion \/ R_Done
    \/ R_FirstCallReturns \/ R_FirstCallRaises
    \/ R_WhileIndexError \/ R_WhileEnter \/ R_WhileExit
    \/ R_SkipItem \/ R_ExecuteTool \/ R_ToolRaises
    \/ R_NextCallReturns \/ R_NextCallRaises
    \/ R_Final

SpecResponses == InitResponses /\ [][NextResponses]_vars

(***************************************************************************)
(* 9_function_calling_chain_functions.py: the Chat Completions API.        *)
(* response.choices[0] carries finish_reason and a message with            *)
(* tool_calls.  The script has no exception handler: a raise ends it.      *)
(***************************************************************************)
\* a Chat Completions turn with the given requests
ChainTurn(requests) ==
    [finish_reason |-> IF requests = <<>> THEN "stop" ELSE "tool_calls",
     role |-> "assistant",
     content |-> IF requests = <<>> THEN "answer" ELSE "None",
     tool_calls |-> requests]

\* the tool-call lists a model call may return in the current state
ModelToolCalls ==
    UNION { [1..n -> RequestKinds] : n \in 0..(MaxItems - items_emitted) }

\* a model call returns a turn with the tool calls `requests`
TurnReturns(turn, requests) ==
    /\ response' = turn
    /\ next_call_id' = next_call_id + Len(requests)
    /\ items_emitted' = items_emitted + Len(requests)
    /\ total_calls' = total_calls + 1
    /\ model_calls' = model_calls + 1
    /\ turns' = Append(turns, requests)

InitChain ==
    /\ script = "chain"
    /\ pc = "for_question"
    /\ conversation = <<[role |-> "system", content |-> SystemPrompt]>>
    /\ asked = 0
    /\ TrimIdle
    /\ ToolIdle
    /\ StreamIdle

\* for question in questions: conversation.append(user message)
Chain_NextQuestion ==
    /\ script = "chain"
    /\ pc = "for_question"
    /\ asked < MaxQuestions
    /\ asked' = asked + 1
    /\ conversation' = Append(conversation, [role |-> "user", content |-> "question"])
    /\ model_calls' = 0
    /\ call_failed' = FALSE
    /\ turns' = <<>>
    /\ executed' = <<>>
    /\ pc' = "first_call"
    /\ UNCHANGED <<script, streamvars, trimvars, response, i, next_call_id, items_emitted, total_calls>>

\* the questions list is exhausted
Chain_Done ==
    /\ script = "chain"
    /\ pc = "for_question"
    /\ asked = MaxQuestions
    /\ pc' = "done"
    /\ UNCHANGED <<script, streamvars, conversation, asked, trimvars, toolvars>>

\* client.chat.completions.create returns (first call of a question)
Chain_FirstCallReturns ==
    /\ script = "chain"
    /\ pc = "first_call"
    /\ total_calls < MaxCalls
    /\ \E requests \in ModelToolCalls : TurnReturns(ChainTurn(requests), requests)
    /\ pc' = "while"
    /\ UNCHANGED <<script, streamvars, conversation, asked, trimvars, i, call_failed, executed>>

\* client.chat.completions.create raises: nothing catches it
Chain_FirstCallRaises ==
    /\ script = "chain"
    /\ pc = "first_call"
    /\ total_calls < MaxCalls
    /\ ModelRaises
    /\ pc' = "crashed"
    /\ UNCHANGED <<script, streamvars, conversation, asked, trimvars, i, executed>>

\* while finish_reason == "tool_calls": tool_calls[0] is executed, the
\* function call and its response are appended
Chain_ExecuteTool ==
    /\ script = "chain"
    /\ pc = "while"
    /\ response.finish_reason = "tool_calls"
    /\ ~Raises(response.tool_calls[1])
    /\ LET request == response.tool_calls[1]
       IN  /\ executed' = Append(executed, next_call_id - Len(response.tool_calls) + 1)
           /\ conversation' = conversation \o
                <<[role |-> response.role,
                   function_call |-> [name |-> request.name,
                                      arguments |-> request.arguments],
                   content |-> "None"],
                  [role |-> "function",
                   name |-> request.name,
                   content |-> CallReturn(request.name, JsonLoads(request.arguments))]>>
    /\ pc' = "next_call"
    /\ UNCHANGED <<script, streamvars, asked, trimvars, response, i, next_call_id, items_emitted,
                   total_calls, model_calls, call_failed, turns>>

\* json.loads, eval or the call raises: nothing catches it
Chain_ToolRaises ==
    /\ script = "chain"
    /\ pc = "while"
    /\ response.finish_reason = "tool_calls"
    /\ Raises(response.tool_calls[1])
    /\ executed' = IF Invoked(response.tool_calls[1])
                   THEN Append(executed, next_call_id - Len(response.tool_calls) + 1)
                   ELSE executed
    /\ pc' = "crashed"
    /\ UNCHANGED <<script, streamvars, conversation, asked, trimvars, response, i, next_call_id,
                   items_emitted, total_calls, model_calls, call_failed, turns>>

\* the while condition fails: the final response is printed
Chain_WhileExit ==
    /\ script = "chain"
    /\ pc = "while"
    /\ response.finish_reason # "tool_calls"
    /\ pc' = "for_question"
    /\ UNCHANGED <<script, streamvars, conversation, asked, trimvars, toolvars>>

\* client.chat.completions.create returns (inside the while loop)
Chain_NextCallReturns ==
    /\ script = "chain"
    /\ pc = "next_call"
    /\ total_calls < MaxCalls
    /\ \E requests \in ModelToolCalls : TurnReturns(ChainTurn(requests), requests)
    /\ pc' = "while"
    /\ UNCHANGED <<script, streamvars, conversation, asked, trimvars, i, call_failed, executed>>

\* client.chat.completions.create raises inside the while loop
Chain_NextCallRaises ==
    /\ script = "chain"
    /\ pc = "next_call"
    /\ total_calls < MaxCalls
    /\ ModelRaises
    /\ pc' = "crashed"
    /\ UNCHANGED <<script, streamvars, conversation, asked, trimvars, i, executed>>

NextChain ==
    \/ Chain_NextQuestion \/ Chain_Done
    \/ Chain_FirstCallReturns \/ Chain_FirstCallRaises
    \/ Chain_ExecuteTool \/ Chain_ToolRaises \/ Chain_WhileExit
    \/ Chain_NextCallReturns \/ Chain_NextCallRaises

SpecChain == InitChain /\ [][NextChain]_vars

(***************************************************************************)
(* 13_ollama/08_function_calling_ollama.py: the Ollama chat API.           *)
(* response.message carries content and tool_calls; the arguments of a     *)
(* tool call arrive as a dict.                                             *)
(***************************************************************************)
\* the tool calls the modelled Ollama client may emit
OllamaRequestKinds ==
    { [function |-> [name |-> r.name, arguments |-> JsonLoads(r.arguments)]] :
        r \in {q \in RequestKinds : JsonValid(q.arguments)} }

OllamaTurn(tool_calls) ==
    [message |-> [role |-> "assistant",
                  content |-> IF tool_calls = <<>> THEN "answer" ELSE "",
                  tool_calls |-> tool_calls]]

OllamaToolCalls ==
    UNION { [1..n -> OllamaRequestKinds] : n \in 0..(MaxItems - items_emitted) }

\* eval or the call raises for this tool call
OllamaRaises(tool_call) ==
    IF ~EvalResolves(tool_call.function.name) THEN TRUE
    ELSE ~CallAccepts(tool_call.function.name, tool_call.function.arguments)

InitOllama ==
    /\ script = "ollama"
    /\ pc = "for_question"
    /\ conversation = <<[role |-> "system", content |-> SystemPrompt]>>
    /\ asked = 0
    /\ TrimIdle
    /\ response = OllamaTurn(<<>>)
    /\ i = 0
    /\ next_call_id = 0
    /\ items_emitted = 0
    /\ total_calls = 0
    /\ model_calls = 0
    /\ call_failed = FALSE
    /\ turns = <<>>
    /\ executed = <<>>
    /\ StreamIdle

\* for question in questions: conversation.append(user message)
Ollama_NextQuestion ==
    /\ script = "ollama"
    /\ pc = "for_question"
    /\ asked < MaxQuestions
    /\ asked' = asked + 1
    /\ conversation' = Append(conversation, [role |-> "user", content |-> "question"])
    /\ model_calls' = 0
    /\ call_failed' = FALSE
    /\ turns' = <<>>
    /\ executed' = <<>>
    /\ pc' = "first_call"
    /\ UNCHANGED <<script, streamvars, trimvars, response, i, next_call_id, items_emitted, total_calls>>

\* the questions list is exhausted
Ollama_Done ==
    /\ script = "ollama"
    /\ pc = "for_question"
    /\ asked = MaxQuestions
    /\ pc' = "done"
    /\ UNCHANGED <<script, streamvars, conversation, asked, trimvars, toolvars>>

\* first chat() call returns
Ollama_FirstCallReturns ==
    /\ script = "ollama"
    /\ pc = "first_call"
    /\ total_calls < MaxCalls
    /\ \E tool_calls \in OllamaToolCalls : TurnReturns(OllamaTurn(tool_calls), tool_calls)
    /\ pc' = "while"
    /\ UNCHANGED <<script, streamvars, conversation, asked, trimvars, i, call_failed, executed>>

\* first chat() call raises: except ResponseError or except Exception, then
\* the for loop goes on
Ollama_FirstCallRaises ==
    /\ script = "ollama"
    /\ pc = "first_call"
    /\ total_calls < MaxCalls
    /\ ModelRaises
    /\ pc' = "for_question"
    /\ UNCHANGED <<script, streamvars, conversation, asked, trimvars, i, executed>>

\* while response.message.tool_calls: the message is appended, the for loop starts
Ollama_WhileEnter ==
    /\ script = "ollama"
    /\ pc = "while"
    /\ response.message.tool_calls # <<>>
    /\ conversation' = Append(conversation, response.message)
    /\ i' = 1
    /\ pc' = "for_item"
    /\ UNCHANGED <<script, streamvars, asked, trimvars, response, next_call_id, items_emitted,
                   total_calls, model_calls, call_failed, turns, executed>>

\* the while condition fails: the final answer is printed and appended
Ollama_Final ==
    /\ script = "ollama"
    /\ pc = "while"
    /\ response.message.tool_calls = <<>>
    /\ conversation' = Append(conversation,
           [role |-> "assistant", content |-> response.message.content])
    /\ pc' = "for_question"
    /\ UNCHANGED <<script, streamvars, asked, trimvars, toolvars>>

\* the call id the history uses for the i-th tool call of the current turn
OllamaCallId == next_call_id - Len(response.message.tool_calls) + i

\* for response_message in response.message.tool_calls: the call is executed
\* and its result appended
Ollama_ExecuteTool ==
    /\ script = "ollama"
    /\ pc = "for_item"
    /\ ~OllamaRaises(response.message.tool_calls[i])
    /\ LET call == response.message.tool_calls[i].function
       IN  conversation' = Append(conversation,
               [role |-> "tool",
                tool_name |-> call.name,
                content |-> PyStr(CallReturn(call.name, call.arguments))])
    /\ executed' = Append(executed, OllamaCallId)
    /\ i' = i + 1
    /\ pc' = IF i = Len(response.message.tool_calls) THEN "next_call" ELSE "for_item"
    /\ UNCHANGED <<script, streamvars, asked, trimvars, response, next_call_id, items_emitted,
                   total_calls, model_calls, call_failed, turns>>

\* eval or the call raises: except Exception, then the for loop goes on
Ollama_ToolRaises ==
    /\ script = "ollama"
    /\ pc = "for_item"
    /\ OllamaRaises(response.message.tool_calls[i])
    /\ executed' = IF EvalResolves(response.message.tool_calls[i].function.name)
                   THEN Append(executed, OllamaCallId)
                   ELSE executed
    /\ pc' = "for_question"
    /\ UNCHANGED <<script, streamvars, conversation, asked, trimvars, response, i, next_call_id,
                   items_emitted, total_calls, model_calls, call_failed, turns>>

\* next chat() call returns
Ollama_NextCallReturns ==
    /\ script = "ollama"
    /\ pc = "next_call"
    /\ total_calls < MaxCalls
    /\ \E tool_calls \in OllamaToolCalls : TurnReturns(OllamaTurn(tool_calls), tool_calls)
    /\ pc' = "while"
    /\ UNCHANGED <<script, streamvars, conversation, asked, trimvars, i, call_failed, executed>>

\* next chat() call raises: the inner except Exception, continue (of the while loop)
Ollama_NextCallRaises ==
    /\ script = "ollama"
    /\ pc = "next_call"
    /\ total_calls < MaxCalls
    /\ ModelRaises
    /\ pc' = "while"
    /\ UNCHANGED <<script, streamvars, conversation, asked, trimvars, i, executed>>

NextOllama ==
    \/ Ollama_NextQuestion \/ Ollama_Done
    \/ Ollama_FirstCallReturns \/ Ollama_FirstCallRaises
    \/ Ollama_WhileEnter \/ Ollama_Final
    \/ Ollama_ExecuteTool \/ Ollama_ToolRaises
    \/ Ollama_NextCallReturns \/ Ollama_NextCallRaises

SpecOllama == InitOllama /\ [][NextOllama]_vars

(***************************************************************************)
(* Specification SpecTools: the three tool-calling scripts.                *)
(***************************************************************************)
SpecTools ==
    (InitResponses \/ InitChain \/ InitOllama)
        /\ [][NextResponses \/ NextChain \/ NextOllama]_vars

(***************************************************************************)
(* Claims about the trimmer.                                               *)
(***************************************************************************)
Last(s) == s[Len(s)]

\* C1: for a transcript of at least 2 messages, the last message of the
\* transcript returned by trim_conversation is the last message of its input
\* (stated at the model call of the chat loop, right after the trim).
C1_NewestKept ==
    (script = "chat" /\ pc = "call" /\ Len(trim_input) >= 2)
        => Last(conversation) = Last(trim_input)

\* C2: for a transcript of at least 2 messages, the transcript returned by
\* trim_conversation has at least 2 messages.
C2_AtLeastTwo ==
    (script = "chat" /\ pc = "call" /\ Len(trim_input) >= 2)
        => Len(conversation) >= 2

\* C3: trim_conversation keeps the first message of a non-empty transcript,
\* during and after its loop, and in the chat loop the first message is the
\* instruction message at every model call.
C3_InstructionKept ==
    /\ (script = "trim" /\ trim_input # <<>>)
          => (conversation # <<>> /\ conversation[1] = trim_input[1])
    /\ (script = "chat" /\ pc = "call")
          => (conversation # <<>> /\ conversation[1] = Instruction
                /\ conversation[1] = trim_input[1])

\* the chat loop is at a model call after a trim that evicted messages and
\* after an earlier provider error left a question without an answer
C3_Witness ==
    /\ script = "chat"
    /\ pc = "call"
    /\ iterations >= 1
    /\ asked = 3
    /\ Len(conversation) < Len(trim_input)
    /\ conversation[1] = Instruction


(***************************************************************************)
(* 07_streaming_responses.py: the chat loop with a streamed answer.  The   *)
(* stream is an external collaborator: each read delivers one chunk, the   *)
(* stream ends, or reading raises.                                         *)
(***************************************************************************)
StreamChunks ==
    { [type |-> "response.created"],
      [type |-> "response.in_progress"],
      [type |-> "response.output_text.delta", delta |-> "Hel"],
      [type |-> "response.output_text.delta", delta |-> "lo"],
      [type |-> "response.completed", output |-> <<"Hello">>],
      [type |-> "response.completed", output |-> <<>>],
      [type |-> "response.error"] }

\* what the branch taken for a chunk prints
ChunkPrints(chunk) ==
    CASE chunk.type = "response.created" -> <<"Answer from LLM:">>
      [] chunk.type = "response.output_text.delta" -> <<chunk.delta>>
      [] chunk.type = "response.error" -> <<"Error from LLM">>
      [] OTHER -> <<>>

\* the two print calls after the for loop
AfterLoopPrints == <<"newline", "rule">>

\* a chunk loop without the break
AfterChunk_NoBreak(chunk) == "for_chunk"

\* where control is after the branch of a chunk: break on response.error
AfterChunk(chunk) ==
    IF chunk.type = "response.error" THEN "input" ELSE "for_chunk"

InitStream ==
    /\ script = "stream"
    /\ pc = "input"
    /\ conversation = <<Instruction>>
    /\ asked = 0
    /\ TrimIdle
    /\ ToolIdle
    /\ StreamIdle

\* input() returns 'exit': print Goodbye!, break
S_Exit ==
    /\ script = "stream"
    /\ pc = "input"
    /\ printed' = Append(printed, "Goodbye!")
    /\ pc' = "exited"
    /\ UNCHANGED <<script, conversation, asked, trimvars, toolvars, stream_log, chunks_total>>

\* input() returns a question: it is appended to the conversation
S_Ask ==
    /\ script = "stream"
    /\ pc = "input"
    /\ asked < MaxRounds
    /\ asked' = asked + 1
    /\ conversation' = Append(conversation, [role |-> "user", content |-> "hi"])
    /\ pc' = "create"
    /\ UNCHANGED <<script, trimvars, toolvars, streamvars>>

\* client.responses.create(stream=True) returns a stream
S_CreateReturns ==
    /\ script = "stream"
    /\ pc = "create"
    /\ stream_log' = <<>>
    /\ pc' = "for_chunk"
    /\ UNCHANGED <<script, conversation, asked, trimvars, toolvars, printed, chunks_total>>

\* client.responses.create raises: except Exception, continue
S_CreateRaises ==
    /\ script = "stream"
    /\ pc = "create"
    /\ printed' = Append(printed, "Error getting answer from LLM")
    /\ pc' = "input"
    /\ UNCHANGED <<script, conversation, asked, trimvars, toolvars, stream_log, chunks_total>>

\* the for loop reads a chunk and runs the branch of its type
S_ReadChunk ==
    /\ script = "stream"
    /\ pc = "for_chunk"
    /\ chunks_total < MaxChunks
    /\ \E chunk \in StreamChunks :
         /\ ~(chunk.type = "response.completed" /\ chunk.output = <<>>)
         /\ stream_log' = Append(stream_log, chunk)
         /\ pc' = AfterChunk(chunk)
         /\ printed' = printed \o ChunkPrints(chunk)
                \o (IF AfterChunk(chunk) = "input" THEN AfterLoopPrints ELSE <<>>)
         /\ conversation' =
                IF chunk.type = "response.completed"
                THEN Append(conversation,
                            [role |-> "assistant", content |-> chunk.output[1]])
                ELSE conversation
    /\ chunks_total' = chunks_total + 1
    /\ UNCHANGED <<script, asked, trimvars, toolvars>>

\* a response.completed chunk without an output item: output[0] raises
\* IndexError, caught by except Exception, continue
S_CompletedRaises ==
    /\ script = "stream"
    /\ pc = "for_chunk"
    /\ chunks_total < MaxChunks
    /\ stream_log' = Append(stream_log, [type |-> "response.completed", output |-> <<>>])
    /\ chunks_total' = chunks_total + 1
    /\ printed' = Append(printed, "Error getting answer from LLM")
    /\ pc' = "input"
    /\ UNCHANGED <<script, conversation, asked, trimvars, toolvars>>

\* reading the stream raises: except Exception, continue
S_StreamRaises ==
    /\ script = "stream"
    /\ pc = "for_chunk"
    /\ printed' = Append(printed, "Error getting answer from LLM")
    /\ pc' = "input"
    /\ UNCHANGED <<script, conversation, asked, trimvars, toolvars, stream_log, chunks_total>>

\* the stream is exhausted: the for loop ends, the two prints run
S_StreamEnds ==
    /\ script = "stream"
    /\ pc = "for_chunk"
    /\ printed' = printed \o AfterLoopPrints
    /\ pc' = "input"
    /\ UNCHANGED <<script, conversation, asked, trimvars, toolvars, stream_log, chunks_total>>

NextStream ==
    \/ S_Exit
    \/ S_Ask
    \/ S_CreateReturns
    \/ S_CreateRaises
    \/ S_ReadChunk
    \/ S_CompletedRaises
    \/ S_StreamRaises
    \/ S_StreamEnds

SpecStream == InitStream /\ [][NextStream]_vars

(***************************************************************************)
(* Claims about the tool-calling loops.                                    *)
(***************************************************************************)
\* the output contains a function-call item, at whatever position
HasCall(output) == \E j \in 1..Len(output) : IsCall(output[j])

\* call ids of the requests the model emitted for the current question
EmittedIds ==
    { turns[t][j].call_id : <<t, j>> \in
        { <<t, j>> \in (DOMAIN turns) \X (1..MaxItems) :
            j <= Len(turns[t]) /\ IsCall(turns[t][j]) } }

\* number of times call id `id` was executed for the current question
TimesExecuted(id) == Cardinality({k \in DOMAIN executed : executed[k] = id})

IsOutputEntry(entry) ==
    "type" \in DOMAIN entry /\ entry.type = "function_call_output"

\* number of function_call_output entries of the transcript with call id `id`
OutputsFor(id) ==
    Cardinality({k \in DOMAIN conversation :
        IsOutputEntry(conversation[k]) /\ conversation[k].call_id = id})

\* the model was asked for a function that is not a declared tool
UndeclaredRequested ==
    \E t \in DOMAIN turns : \E j \in DOMAIN turns[t] :
        IsCall(turns[t][j]) /\ turns[t][j].name \notin DeclaredTools

\* C4: when no call fails, the loop of a question ends on the first turn
\* without a function call: with k turns that contain function calls
\* followed by one that contains none, k+1 model calls are issued.
C4_CallsUntilPlainTurn ==
    (script = "responses" /\ pc = "final" /\ ~call_failed)
        => /\ model_calls = Len(turns)
           /\ \A t \in 1..(Len(turns) - 1) : HasCall(turns[t])
           /\ ~HasCall(turns[Len(turns)])

\* C5: once a model call of the current question has raised, no model call
\* is issued and no tool is executed for that question any more.
C5_NoRetryAfterError ==
    [][(script = "responses" /\ call_failed /\ asked' = asked)
          => (model_calls' = model_calls /\ executed' = executed)]_vars

\* C6: every function-call request the model emitted for a question is
\* executed at most once while the question is processed, and exactly once,
\* with exactly one function_call_output entry, when the processing has
\* reached the final answer or is over.
C6_ExecutedExactlyOnce ==
    script = "responses"
        => /\ \A id \in EmittedIds : TimesExecuted(id) <= 1 /\ OutputsFor(id) <= 1
           /\ (pc = "final" \/ (pc = "for_question" /\ asked > 0))
                 => \A id \in EmittedIds : TimesExecuted(id) = 1 /\ OutputsFor(id) = 1

\* C8: a turn is taken as the final answer only if it contains no
\* function-call item, and tool execution is entered for any other turn.
C8_ToolsWheneverRequested ==
    script = "responses"
        => /\ pc = "final" => ~HasCall(response.output)
           /\ pc = "for_item" => HasCall(response.output)

\* the requests of the current turn
TurnRequests ==
    CASE script = "responses" -> CallItems(response.output)
      [] script = "chain" -> response.tool_calls
      [] script = "ollama" -> response.message.tool_calls

\* a transcript entry that holds the result of a tool call
IsResultEntry(entry) ==
    \/ IsOutputEntry(entry)
    \/ "role" \in DOMAIN entry /\ entry.role \in {"function", "tool"}

\* C7: when the next model call of a tool-calling loop is issued, every
\* request of the current turn has been executed and the transcript ends
\* with one result per request.
C7_AllExecutedBeforeResubmission ==
    (script \in {"responses", "chain", "ollama"} /\ pc = "next_call")
        => LET m == Len(TurnRequests)
           IN  /\ m >= 1
               /\ Len(conversation) > m
               /\ \A j \in 1..m :
                     IsResultEntry(conversation[Len(conversation) - m + j])

\* C9: at the next model call, the transcript ends with the model's turn
\* followed immediately by one result per request of the turn, in the order
\* of the requests (10_function_calling.py and the Ollama script).
C9_ResultsInRequestOrder ==
    /\ (script = "responses" /\ pc = "next_call")
          => LET output == response.output
                 calls == CallItems(output)
                 n == Len(output)
                 m == Len(calls)
                 base == Len(conversation) - n - m
             IN  /\ m >= 1
                 /\ base >= 0
                 /\ \A j \in 1..n : conversation[base + j] = output[j]
                 /\ \A j \in 1..m :
                       /\ IsOutputEntry(conversation[base + n + j])
                       /\ conversation[base + n + j].call_id = calls[j].call_id
                       /\ conversation[base + n + j].output.from = calls[j].name
    /\ (script = "ollama" /\ pc = "next_call")
          => LET calls == response.message.tool_calls
                 m == Len(calls)
                 base == Len(conversation) - 1 - m
             IN  /\ m >= 1
                 /\ base >= 0
                 /\ "tool_calls" \in DOMAIN conversation[base + 1]
                 /\ conversation[base + 1].tool_calls = calls
                 /\ \A j \in 1..m :
                       /\ "tool_name" \in DOMAIN conversation[base + 1 + j]
                       /\ conversation[base + 1 + j].role = "tool"
                       /\ conversation[base + 1 + j].tool_name = calls[j].function.name

\* a turn with three requests has been executed and the next call is due
C9_Witness ==
    /\ script = "responses"
    /\ pc = "next_call"
    /\ Len(CallItems(response.output)) = 3
    /\ Len(executed) = 3

\* C10: once the model has requested a function that is not a declared
\* tool, no further model call is issued for that question.
C10_UnknownToolAbandons ==
    [][(script = "responses" /\ UndeclaredRequested /\ asked' = asked)
          => model_calls' = model_calls]_vars


\* the function-call items the model emitted for the current question
EmittedCalls ==
    { turns[t][j] : <<t, j>> \in
        { <<t, j>> \in (DOMAIN turns) \X (1..MaxItems) :
            j <= Len(turns[t]) /\ IsCall(turns[t][j]) } }

\* C11: every callable the orchestrator invokes is one of the declared tool
\* functions; a request that names anything else is not invoked.
C11_OnlyDeclaredInvoked ==
    script = "responses"
        => \A k \in DOMAIN executed :
              \A item \in EmittedCalls :
                  item.call_id = executed[k] => item.name \in DeclaredTools

\* C12: in a tool-calling script, when a model call of the current question
\* has raised, the script is back at its loop over the questions (or has
\* finished the list): it has not stopped and is not still working on the
\* question.
C12_ProviderErrorMovesOn ==
    (script \in {"responses", "chain", "ollama"} /\ call_failed)
        => pc \in {"for_question", "done"}

(***************************************************************************)
(* Claims about trim_conversation and calculate_token_count.               *)
(***************************************************************************)
\* trim_conversation has returned: on its own, or inside the chat loop
TrimReturned ==
    \/ script = "trim" /\ pc = "trim_returned"
    \/ script = "chat" /\ pc = "call"

WithinBudget(conv) ==
    calculate_token_count(conv) + max_response_tokens <= token_limit

\* C13: a transcript that is within the budget when trim_conversation is
\* called is returned with the same messages in the same order, whatever its
\* length; the loop makes no iteration.
C13_WithinBudgetUnchanged ==
    (TrimReturned /\ WithinBudget(trim_input))
        => (conversation = trim_input /\ iterations = 0)

C13_Witness ==
    /\ script = "trim"
    /\ pc = "trim_returned"
    /\ Len(trim_input) > 2
    /\ calculate_token_count(trim_input) + max_response_tokens = token_limit

\* C14: when trim_conversation returns, the result is within the budget or
\* it has at most 2 messages.
C14_BudgetOrTwo ==
    TrimReturned => (WithinBudget(conversation) \/ Len(conversation) <= 2)

C14_Witness ==
    /\ TrimReturned
    /\ iterations > 0
    /\ ~WithinBudget(conversation)

\* C15: a transcript of at most 2 messages is returned unchanged whatever
\* the budget, also when it is over the budget.
C15_ShortUnchanged ==
    (TrimReturned /\ Len(trim_input) <= 2)
        => (conversation = trim_input /\ iterations = 0)

C15_Witness ==
    /\ script = "trim"
    /\ pc = "trim_returned"
    /\ Len(trim_input) = 2
    /\ ~WithinBudget(trim_input)

\* C16: each iteration of the trimming loop removes the two messages that
\* follow the instruction message, so the transcript shrinks by 2 per
\* iteration, and in the chat loop the two messages removed by an iteration
\* are a user message and the assistant reply paired with it.
C16_RemovesOldestPair ==
    (script = "chat" /\ pc = "call")
        => /\ Len(conversation) = Len(trim_input) - 2 * iterations
           /\ conversation = <<trim_input[1]>>
                   \o SubSeq(trim_input, 2 * iterations + 2, Len(trim_input))
           /\ \A k \in 1..iterations :
                 /\ trim_input[2 * k].role = "user"
                 /\ trim_input[2 * k + 1].role = "assistant"

\* C17 as stated: the loop makes at most floor((len - 1) / 2) iterations,
\* len being the length of the transcript handed to trim_conversation.
C17_BoundAsStated ==
    (script = "trim" /\ pc = "trim_returned") => iterations <= (Len(trim_input) - 1) \div 2

\* C17: trim_conversation returns for every transcript and every budget; the
\* loop makes at most floor((len - 1) / 2) iterations for a transcript of
\* len >= 1 messages, and none for the empty transcript.
C17_Terminates ==
    /\ [](script = "trim" =>
            iterations <= (IF Len(trim_input) = 0 THEN 0
                           ELSE (Len(trim_input) - 1) \div 2))
    /\ <>(pc = "trim_returned")

C17_Witness ==
    /\ script = "trim"
    /\ pc = "trim_returned"
    /\ Len(trim_input) > 2
    /\ iterations = (Len(trim_input) - 1) \div 2

\* per message: 3, the tokens of every field value, 1 more for a name field
PerMessage(message) ==
    3 + Tok(message.role) + Tok(message.content)
      + (IF "name" \in DOMAIN message THEN Tok(message.name) + 1 ELSE 0)

RECURSIVE SumPerMessage(_, _)
\* PerMessage summed over the first n messages of conv
SumPerMessage(conv, n) ==
    IF n = 0 THEN 0 ELSE SumPerMessage(conv, n - 1) + PerMessage(conv[n])

RECURSIVE SumRoleContent(_, _)
\* 3 + tokens(role) + tokens(content) summed over the first n messages
SumRoleContent(conv, n) ==
    IF n = 0 THEN 0
    ELSE SumRoleContent(conv, n - 1) + 3 + Tok(conv[n].role) + Tok(conv[n].content)

\* C18: calculate_token_count is 3 plus, per message, 3 plus the tokens of
\* every field value plus 1 for a name field; when no message has a name
\* field it is 3 plus the sum of 3 + tokens(role) + tokens(content).
C18_TokenCount ==
    script \in {"trim", "chat"}
        => /\ calculate_token_count(conversation)
                 = 3 + SumPerMessage(conversation, Len(conversation))
           /\ (\A k \in DOMAIN conversation : "name" \notin DOMAIN conversation[k])
                 => calculate_token_count(conversation)
                        = 3 + SumRoleContent(conversation, Len(conversation))

C18_Witness ==
    /\ script = "trim"
    /\ Len(conversation) > 2
    /\ \E k \in DOMAIN conversation : "name" \in DOMAIN conversation[k]
    /\ \E k \in DOMAIN conversation : "name" \notin DOMAIN conversation[k]
    /\ calculate_token_count(conversation) + max_response_tokens > token_limit

\* entry k of the transcript is the function-call item with call id `id`
IsRequestAt(k, id) ==
    /\ "type" \in DOMAIN conversation[k]
    /\ conversation[k].type = "function_call"
    /\ conversation[k].call_id = id

\* C19: every function_call_output entry of the transcript carries the call
\* id of a request that stands before it in the transcript, and its output is a string made from the return value of the function
\* that request names.
C19_OutputMatchesRequest ==
    script = "responses"
        => \A k \in DOMAIN conversation :
              IsOutputEntry(conversation[k])
                  => /\ \E r \in 1..(k - 1) :
                          /\ IsRequestAt(r, conversation[k].call_id)
                          /\ conversation[k].output.from = conversation[r].name
                     /\ conversation[k].output.pytype = "str"

C19_Witness ==
    /\ script = "responses"
    /\ \E k \in DOMAIN conversation :
          /\ IsOutputEntry(conversation[k])
          /\ conversation[k].call_id > 1
          /\ conversation[k].output.repr
    /\ \E k \in DOMAIN conversation :
          /\ IsOutputEntry(conversation[k])
          /\ ~conversation[k].output.repr

(***************************************************************************)
(* Claims about the streaming chat loop.                                   *)
(***************************************************************************)
\* the last chunk read from the current stream is of type response.error
ErrorRead ==
    stream_log # <<>> /\ stream_log[Len(stream_log)].type = "response.error"

\* C20: once a chunk of type response.error has been read, no further
\* chunk of that stream is read (the log of the stream changes only when a
\* new stream is opened for a later question), what was printed stays
\* printed, and the script is at the next user input or beyond.
C20_ErrorChunkTerminal ==
    [][script = "stream" =>
          /\ ErrorRead =>
                /\ pc \in {"input", "create", "exited"}
                /\ stream_log' # stream_log => (pc = "create" /\ stream_log' = <<>>)
          /\ ErrorRead' => pc' \in {"input", "create", "exited"}
          /\ Len(printed) <= Len(printed')
          /\ SubSeq(printed', 1, Len(printed)) = printed]_vars

C20_Witness ==
    /\ script = "stream"
    /\ ErrorRead
    /\ pc = "create"
    /\ chunks_total < MaxChunks
    /\ \E k \in DOMAIN stream_log : stream_log[k].type = "response.output_text.delta"
    /\ \E k \in DOMAIN printed : printed[k] = "Hel"

(***************************************************************************)
(* Claims about the token-limited chat loop.                               *)
(***************************************************************************)
\* C21: for every question the chat loop issues exactly one model request,
\* with the transcript trim_conversation returned, also when that
\* transcript is still over the budget.
C21_OneRequestPerQuestion ==
    [][script = "chat" =>
          /\ pc' \in {"input", "exited"} => total_calls' = asked'
          /\ pc' = "call" => total_calls' = asked' - 1
          /\ total_calls' # total_calls =>
                /\ pc = "call"
                /\ total_calls' = total_calls + 1
                /\ conversation
                      = trim_conversation(trim_input, MAX_RESPONSE_TOKENS, TOKEN_LIMIT)]_vars

C21_Witness ==
    /\ script = "chat"
    /\ pc = "input"
    /\ asked > 1
    /\ total_calls = asked
    /\ iterations > 0
    /\ ~WithinBudget(trim_conversation(trim_input, MAX_RESPONSE_TOKENS, TOKEN_LIMIT))

\* C22: after a provider error on the model call of a question, the
\* transcript is the one that was passed to the call (no assistant message
\* was appended for the question) and the loop is at its next input (or has
\* been left by 'exit'); the process has not ended on the error.
C22_ErrorAbandonsQuestion ==
    (script = "chat" /\ call_failed)
        => /\ pc \in {"input", "exited"}
           /\ conversation
                 = trim_conversation(trim_input, MAX_RESPONSE_TOKENS, TOKEN_LIMIT)

C22_Witness ==
    /\ script = "chat"
    /\ call_failed
    /\ pc = "input"
    /\ asked > 1
    /\ Len(conversation) > 2

\* C23: the transcript the chat loop passes to trim_conversation is the
\* instruction followed by alternating user and assistant messages and ends
\* with the user message just asked, so it has an even number of messages.
C23_AlternatingTranscript ==
    (script = "chat" /\ pc = "call")
        => /\ Len(trim_input) % 2 = 0
           /\ trim_input[1] = Instruction
           /\ \A k \in 2..Len(trim_input) :
                 trim_input[k].role = (IF k % 2 = 0 THEN "user" ELSE "assistant")

(***************************************************************************)
(* Further claims about the Responses-API orchestrator.                    *)
(***************************************************************************)
\* entry k of the transcript is a function-call item
IsRequestEntry(k) ==
    "type" \in DOMAIN conversation[k] /\ conversation[k].type = "function_call"

\* positions after k holding a function_call_output with call id `id`
OutputsAfter(k, id) ==
    { o \in (k + 1)..Len(conversation) :
        IsOutputEntry(conversation[o]) /\ conversation[o].call_id = id }

\* C24: whenever the orchestrator is about to call the model, every
\* function-call item of the transcript has exactly one function_call_output
\* with its call id after it, and every function_call_output has a
\* function-call item with its call id before it.
C24_CallsPairedAtModelCall ==
    (script = "responses" /\ pc \in {"first_call", "next_call"})
        => /\ \A k \in DOMAIN conversation :
                 IsRequestEntry(k)
                     => Cardinality(OutputsAfter(k, conversation[k].call_id)) = 1
           /\ \A o \in DOMAIN conversation :
                 IsOutputEntry(conversation[o])
                     => \E k \in 1..(o - 1) : IsRequestAt(k, conversation[o].call_id)

\* the transcript handed to trim_conversation with its first message kept
\* and the j pairs after it removed
WithoutPairs(j) ==
    <<trim_input[1]>> \o SubSeq(trim_input, 2 * j + 2, Len(trim_input))

\* C25: the result of trim_conversation is the first message of the input
\* followed by a contiguous suffix of the other messages, an even number of
\* messages having been dropped; if pairs were removed, the transcript with
\* one pair fewer removed was over the budget.  (An empty input has no
\* first message and is returned as it is.)
C25_FirstPlusLongestSuffix ==
    TrimReturned
        => IF trim_input = <<>>
           THEN conversation = <<>>
           ELSE /\ conversation = WithoutPairs(iterations)
                /\ Len(trim_input) - Len(conversation) = 2 * iterations
                /\ iterations > 0 => ~WithinBudget(WithoutPairs(iterations - 1))

C25_Witness ==
    /\ TrimReturned
    /\ iterations > 0
    /\ Len(conversation) > 1
    /\ WithinBudget(conversation)
    /\ conversation[2] # trim_input[2]

\* the for loop is at a function-call item whose invocation raises
AtRaisingItem ==
    /\ pc = "for_item"
    /\ IsCall(response.output[i])
    /\ Raises(response.output[i])

\* C26: when a tool invocation raises, the step that handles it leaves the
\* transcript as it is (no tool result, no assistant answer), makes no
\* model call, executes none of the remaining calls of the turn and ends
\* at the loop over the questions; from there the script only starts the
\* next question or finishes.
C26_ToolErrorAbandonsQuestion ==
    [][script = "responses" =>
          /\ AtRaisingItem =>
                /\ pc' = "for_question"
                /\ conversation' = conversation
                /\ model_calls' = model_calls
                /\ total_calls' = total_calls
                /\ \A k \in DOMAIN executed' :
                      k > Len(executed) => executed'[k] = response.output[i].call_id
          /\ pc = "for_question" =>
                \/ pc' = "done" /\ conversation' = conversation
                \/ /\ pc' = "first_call"
                   /\ asked' = asked + 1
                   /\ conversation'
                         = Append(conversation, [role |-> "user", content |-> "question"])]_vars

C26_Witness ==
    /\ script = "responses"
    /\ pc = "for_question"
    /\ ~call_failed
    /\ turns # <<>>
    /\ response.output = turns[Len(turns)]
    /\ Len(response.output) > 1
    /\ i = 1
    /\ IsCall(response.output[1])
    /\ Raises(response.output[1])
    /\ IsCall(response.output[2])
    /\ \A k \in DOMAIN executed : executed[k] # response.output[2].call_id

\* entry k of transcript conv is an assistant message as the script appends
\* it, a dict with role and content; the output items of the model client
\* that `conversation += response.output` adds are not counted
IsAssistantAt(conv, k) ==
    "role" \in DOMAIN conv[k] /\ conv[k].role = "assistant"

\* number of assistant messages in transcript conv
AssistantCount(conv) ==
    Cardinality({k \in DOMAIN conv : IsAssistantAt(conv, k)})

\* position of the user message of the current question
QuestionAt ==
    CHOOSE q \in DOMAIN conversation :
        /\ "role" \in DOMAIN conversation[q] /\ conversation[q].role = "user"
        /\ \A k \in (q + 1)..Len(conversation) :
              ~("role" \in DOMAIN conversation[k] /\ conversation[k].role = "user")

\* C27: when the orchestration of a question reaches the final answer, no
\* assistant message has been appended for the question yet, and the step
\* appends one assistant message holding the final answer at the end of
\* the transcript, after the question's tool-call items and results; no
\* other step appends an assistant message, so an abandoned question gets
\* none.
C27_OneFinalAnswer ==
    [][script = "responses" =>
          /\ pc = "final" =>
                /\ \A k \in (QuestionAt + 1)..Len(conversation) :
                      ~IsAssistantAt(conversation, k)
                /\ conversation' = Append(conversation,
                       [role |-> "assistant", content |-> OutputText(response.output)])
                /\ pc' = "for_question"
          /\ pc # "final" =>
                AssistantCount(conversation') = AssistantCount(conversation)]_vars

C27_Witness ==
    /\ script = "responses"
    /\ pc = "for_question"
    /\ Len(conversation) > 4
    /\ IsAssistantAt(conversation, Len(conversation))
    /\ IsOutputEntry(conversation[Len(conversation) - 1])
    /\ AssistantCount(conversation) = 1
    /\ asked > 1

(***************************************************************************)
(* Claims about all tool-calling scripts.                                  *)
(***************************************************************************)
\* C28: a step of a tool-calling orchestrator only appends to the
\* transcript: the transcript before the step is a prefix of the
\* transcript after it.
C28_TranscriptAppendOnly ==
    [][(script \in {"responses", "chain", "ollama"})
          => (/\ Len(conversation) <= Len(conversation')
              /\ conversation = SubSeq(conversation', 1, Len(conversation)))]_vars

C28_Witness ==
    /\ script = "responses"
    /\ asked > 1
    /\ call_failed
    /\ \E k \in 1..(QuestionAt - 1) : IsOutputEntry(conversation[k])
    /\ \E k \in 1..(QuestionAt - 1) : IsAssistantAt(conversation, k)

====
